---- MODULE Spec2Model ----
(***************************************************************************)
(* Model of the Kafka/Redis task gateway of apis/kafka/producer.py:        *)
(* the handlers push, get_status and server_status, run by concurrent      *)
(* handler invocations that interleave at every Redis / Kafka call, and    *)
(* the external worker that consumes published messages and rewrites the   *)
(* Task Records.                                                           *)
(*                                                                         *)
(* random_hash() is modelled collision-free: it returns a uid that no      *)
(* earlier call returned.  Redis calls themselves never fail in the model; *)
(* kafka_producer.send either returns or raises.                           *)
(***************************************************************************)
EXTENDS Integers, Sequences, FiniteSets, TLC

\* ---------------------------------------------------------------- bounds
MaxUids == 3
MaxHandlers == 2
MaxMembers == 2
\* push calls admitted while invocations interleave (Spec); one request at
\* a time (SeqSpec) is bounded by MaxUids alone
MaxPushes == 2

UIDS == 1..MaxUids
Handlers == 1..MaxHandlers
Tasks == {"resize"}
Topics == {"jobs"}
Params == {"w100h100"}

\* ------------------------------------------------------------- constants
NoUid == 0
Null == "null"
NoValue == <<>>
ResultData == "url"
ErrorData == "err"

PENDING == "pending"
WORKING == "working"
FINISHED == "finished"
EXCEPTION == "exception"

VARIABLES
    store,      \* redis: key <uid> -> NoValue or the JSON text of the record
    pqueue,     \* redis: key KAFKA_PENDING_QUEUE -> NoValue or JSON text
    broker,     \* messages published to kafka
    minted,     \* uids random_hash() has returned so far
    wpc,        \* the worker's position on each uid
    pc,         \* each handler invocation's position
    uid,        \* local: uid
    queue,      \* local: queue
    rec,        \* local: record
    idx,        \* local: loop index i of the prune loop
    pop,        \* local: pop_indices
    members,    \* local: len(members) as reported by the broker
    resp,       \* the handler's response
    trace,      \* history: what push has made visible for each uid, in order
    returned    \* history: uids returned by a successful push

vars == <<store, pqueue, broker, minted, wpc, pc, uid, queue, rec, idx, pop,
          members, resp, trace, returned>>

shared == <<store, pqueue, broker, minted, wpc, trace, returned>>

\* ------------------------------------------------------------ JSON, redis
\* json.dumps(dict(status=..., data=...)) and StatusData(**json.loads(data))
JsonDumpsRecord(status, data) == <<status, data>>

StatusData(json) == [status |-> json[1], data |-> json[2]]

\* json.dumps(queue) / json.loads(data) for the pending queue
JsonDumpsQueue(q) == <<q>>

JsonLoadsQueue(json) == json[1]

NoRecord == [status |-> "none", data |-> Null]

NoResp == [kind |-> "none"]

ErrorResp == [kind |-> "error"]

\* variant: a missing key read as a task already taken by a worker
fetch_redis_absent_working(st, u) ==
    IF st[u] = NoValue
        THEN [status |-> WORKING, data |-> Null]
        ELSE StatusData(st[u])

fetch_redis(st, u) ==
    IF st[u] = NoValue
        THEN [status |-> PENDING, data |-> Null]
        ELSE StatusData(st[u])

get_pending_queue(pq) ==
    IF pq = NoValue THEN <<>> ELSE JsonLoadsQueue(pq)

\* queue.pop(i) with a zero-based index i
ListPop(q, i) ==
    [k \in 1..(Len(q) - 1) |-> IF k <= i THEN q[k] ELSE q[k + 1]]

\* variant: the indices are popped front to back, so later ones have shifted
RECURSIVE PopAllForward(_, _)
PopAllForward(q, indices) ==
    IF indices = <<>>
        THEN q
        ELSE PopAllForward(ListPop(q, indices[1]), Tail(indices))

\* for idx in pop_indices[::-1]: queue.pop(idx)
RECURSIVE PopAll(_, _)
PopAll(q, indices) ==
    IF indices = <<>>
        THEN q
        ELSE PopAll(ListPop(q, indices[Len(indices)]),
                    SubSeq(indices, 1, Len(indices) - 1))

\* variant: the loop records the index one past the finished entry
ScanStepOffByOne(st, q, i, indices) ==
    IF fetch_redis(st, q[i + 1]).status = FINISHED
        THEN Append(indices, i + 1)
        ELSE indices

\* one iteration of: for i, i_uid in enumerate(queue)
ScanStep(st, q, i, indices) ==
    IF fetch_redis(st, q[i + 1]).status = FINISHED
        THEN Append(indices, i)
        ELSE indices

\* the whole loop, run against one store
RECURSIVE PopIndices(_, _, _, _)
PopIndices(st, q, i, indices) ==
    IF i >= Len(q)
        THEN indices
        ELSE PopIndices(st, q, i + 1, ScanStep(st, q, i, indices))

\* variant: a uid that is not in the queue is placed behind its last entry
LagFallbackLen(q, u) ==
    IF \E k \in 1..Len(q) : q[k] = u
        THEN (CHOOSE k \in 1..Len(q) :
                 q[k] = u /\ \A j \in 1..(k - 1) : q[j] # u) - 1
        ELSE Len(q)

\* try: lag = queue.index(uid) / except: lag = len(queue) - 1
Lag(q, u) ==
    IF \E k \in 1..Len(q) : q[k] = u
        THEN (CHOOSE k \in 1..Len(q) :
                 q[k] = u /\ \A j \in 1..(k - 1) : q[j] # u) - 1
        ELSE Len(q) - 1

\* variant: a finished record is still looked up in the queue
FinishedLagFromQueue(q, u) == Lag(q, u)

\* lag of a record read as finished
FinishedLag(q, u) == 0

\* variant: one member is not enough
IsReadyMoreThanOne(n) == n > 1

\* is_ready=len(members) > 0
IsReady(n) == n > 0

\* variant: push records the task as already taken
InitialRecordWorking == JsonDumpsRecord(WORKING, Null)

\* the record push writes for a new uid
InitialRecord == JsonDumpsRecord(PENDING, Null)

Message(topic, u, task, params) ==
    [topic |-> topic, uid |-> u, task |-> task, params |-> params]

Published(u) == \E m \in broker : m.uid = u

StoredQueue == get_pending_queue(pqueue)

InQueue(q, u) == \E k \in 1..Len(q) : q[k] = u

\* ------------------------------------------------------------------ init
Init ==
    /\ store = [u \in UIDS |-> NoValue]
    /\ pqueue = NoValue
    /\ broker = {}
    /\ minted = {}
    /\ wpc = [u \in UIDS |-> "none"]
    /\ pc = [h \in Handlers |-> "idle"]
    /\ uid = [h \in Handlers |-> NoUid]
    /\ queue = [h \in Handlers |-> <<>>]
    /\ rec = [h \in Handlers |-> NoRecord]
    /\ idx = [h \in Handlers |-> 0]
    /\ pop = [h \in Handlers |-> <<>>]
    /\ members = [h \in Handlers |-> 0]
    /\ resp = [h \in Handlers |-> NoResp]
    /\ trace = [u \in UIDS |-> <<>>]
    /\ returned = {}

\* ------------------------------------------------------------ scheduling
\* A response is delivered before anything else is looked at: Respond only
\* clears the invocation's locals, so it commutes with every other step.
NoneDone == \A g \in Handlers : pc[g] # "done"

\* Invocations are anonymous: a new one takes the lowest free slot.
Free(h) ==
    /\ NoneDone
    /\ pc[h] = "idle"
    /\ \A g \in Handlers : g < h => pc[g] # "idle"

\* handler h is at position p and may take its next step
At(h, p) == NoneDone /\ pc[h] = p

\* random_hash(): a uid no earlier call returned.  Uids are opaque, so the
\* least unused one stands for any fresh value.
random_hash(used) == CHOOSE u \in UIDS \ used : \A v \in UIDS \ used : u <= v

\* ------------------------------------------------------------------ push
\* variant: the uid is put on the stored queue as soon as it is minted,
\* before the message is sent
PushMintAppendsFirst(h) ==
    /\ Free(h)
    /\ minted # UIDS
    /\ uid' = [uid EXCEPT ![h] = random_hash(minted)]
    /\ minted' = minted \cup {random_hash(minted)}
    /\ pqueue' = JsonDumpsQueue(Append(get_pending_queue(pqueue),
                                       random_hash(minted)))
    /\ pc' = [pc EXCEPT ![h] = "p_send"]
    /\ UNCHANGED <<store, broker, wpc, queue, rec, idx, pop, members,
                   resp, trace, returned>>

\* uid = random_hash()
PushMint(h) ==
    /\ Free(h)
    /\ minted # UIDS
    /\ uid' = [uid EXCEPT ![h] = random_hash(minted)]
    /\ minted' = minted \cup {random_hash(minted)}
    /\ pc' = [pc EXCEPT ![h] = "p_send"]
    /\ UNCHANGED <<store, pqueue, broker, wpc, queue, rec, idx, pop, members,
                   resp, trace, returned>>

\* variant: the initial record is written before the send, so a send that
\* raises leaves it behind
PushSendRecordFirst(h) ==
    /\ At(h, "p_send")
    /\ store' = [store EXCEPT ![uid[h]] = InitialRecord]
    /\ \E topic \in Topics, task \in Tasks, params \in Params, ok \in BOOLEAN :
          IF ok
             THEN /\ broker' = broker \cup
                                  {Message(topic, uid[h], task, params)}
                  /\ trace' = [trace EXCEPT
                                  ![uid[h]] = Append(@, "publish")]
                  /\ pc' = [pc EXCEPT ![h] = "p_getq"]
                  /\ resp' = resp
             ELSE /\ resp' = [resp EXCEPT ![h] = ErrorResp]
                  /\ pc' = [pc EXCEPT ![h] = "done"]
                  /\ UNCHANGED <<broker, trace>>
    /\ UNCHANGED <<pqueue, minted, wpc, uid, queue, rec, idx, pop,
                   members, returned>>

\* kafka_producer.send(topic, ...): returns, or raises and ends the handler
PushSend(h) ==
    /\ At(h, "p_send")
    /\ \E topic \in Topics, task \in Tasks, params \in Params, ok \in BOOLEAN :
          IF ok
             THEN /\ broker' = broker \cup
                                  {Message(topic, uid[h], task, params)}
                  /\ trace' = [trace EXCEPT
                                  ![uid[h]] = Append(@, "publish")]
                  /\ pc' = [pc EXCEPT ![h] = "p_getq"]
                  /\ resp' = resp
             ELSE /\ resp' = [resp EXCEPT ![h] = ErrorResp]
                  /\ pc' = [pc EXCEPT ![h] = "done"]
                  /\ UNCHANGED <<broker, trace>>
    /\ UNCHANGED <<store, pqueue, minted, wpc, uid, queue, rec, idx, pop,
                   members, returned>>

\* variant: the record is written before the queue is read, and the
\* append follows it
PushGetQueueAfterRecord(h) ==
    /\ At(h, "p_getq")
    /\ store' = [store EXCEPT ![uid[h]] = InitialRecord]
    /\ trace' = [trace EXCEPT ![uid[h]] = Append(@, "record")]
    /\ queue' = [queue EXCEPT ![h] = Append(get_pending_queue(pqueue), uid[h])]
    /\ pc' = [pc EXCEPT ![h] = "p_setq"]
    /\ UNCHANGED <<pqueue, broker, minted, wpc, returned, uid, rec, idx, pop,
                   members, resp>>

\* queue = get_pending_queue(); queue.append(uid)
PushGetQueue(h) ==
    /\ At(h, "p_getq")
    /\ queue' = [queue EXCEPT ![h] = Append(get_pending_queue(pqueue), uid[h])]
    /\ pc' = [pc EXCEPT ![h] = "p_setq"]
    /\ UNCHANGED <<shared, uid, rec, idx, pop, members, resp>>

\* the uids published so far, in the order they were minted
RECURSIVE PublishedUpTo(_)
PublishedUpTo(n) ==
    IF n = 0
        THEN <<>>
        ELSE IF Published(n)
                THEN Append(PublishedUpTo(n - 1), n)
                ELSE PublishedUpTo(n - 1)

\* variant: the queue is rebuilt from every published uid, not from the
\* list read from the store
PushSetQueueFromBroker(h) ==
    /\ At(h, "p_setq")
    /\ pqueue' = JsonDumpsQueue(PublishedUpTo(MaxUids))
    /\ trace' = [trace EXCEPT ![uid[h]] = Append(@, "append")]
    /\ pc' = [pc EXCEPT ![h] = "p_rec"]
    /\ UNCHANGED <<store, broker, minted, wpc, uid, queue, rec, idx, pop,
                   members, resp, returned>>

\* variant: the append is applied to the queue as stored at the time of
\* the write (an atomic append)
PushSetQueueAtomic(h) ==
    /\ At(h, "p_setq")
    /\ pqueue' = JsonDumpsQueue(Append(get_pending_queue(pqueue), uid[h]))
    /\ trace' = [trace EXCEPT ![uid[h]] = Append(@, "append")]
    /\ pc' = [pc EXCEPT ![h] = "p_rec"]
    /\ UNCHANGED <<store, broker, minted, wpc, uid, queue, rec, idx, pop,
                   members, resp, returned>>

\* redis_client.set(pending_queue_key, json.dumps(queue))
PushSetQueue(h) ==
    /\ At(h, "p_setq")
    /\ pqueue' = JsonDumpsQueue(queue[h])
    /\ trace' = [trace EXCEPT ![uid[h]] = Append(@, "append")]
    /\ pc' = [pc EXCEPT ![h] = "p_rec"]
    /\ UNCHANGED <<store, broker, minted, wpc, uid, queue, rec, idx, pop,
                   members, resp, returned>>

\* redis_client.set(uid, json.dumps(dict(status="pending", data=None)))
\* return ProducerResponseModel(uid=uid)
PushSetRecord(h) ==
    /\ At(h, "p_rec")
    /\ store' = [store EXCEPT ![uid[h]] = InitialRecord]
    /\ trace' = [trace EXCEPT ![uid[h]] = Append(@, "record")]
    /\ returned' = returned \cup {uid[h]}
    /\ resp' = [resp EXCEPT ![h] = [kind |-> "push", uid |-> uid[h]]]
    /\ pc' = [pc EXCEPT ![h] = "done"]
    /\ UNCHANGED <<pqueue, broker, minted, wpc, uid, queue, rec, idx, pop,
                   members>>

push(h) ==
    \/ PushMint(h)
    \/ PushSend(h)
    \/ PushGetQueue(h)
    \/ PushSetQueue(h)
    \/ PushSetRecord(h)

\* ------------------------------------------------------------ get_status
\* variant: a uid found nowhere (negative lag) is reported as finished
StatusRespMissingFinished(r, lag) ==
    [kind |-> "status",
     status |-> IF lag < 0 THEN FINISHED ELSE r.status,
     data |-> r.data,
     pending |-> lag]

StatusResp(r, lag) ==
    [kind |-> "status", status |-> r.status, data |-> r.data, pending |-> lag]

\* variant: a uid without a record gets the pending record written for it
GetStatusFetchCreates(h) ==
    /\ Free(h)
    /\ \E u \in UIDS :
          LET record == fetch_redis(store, u) IN
          /\ uid' = [uid EXCEPT ![h] = u]
          /\ rec' = [rec EXCEPT ![h] = record]
          /\ store' = IF store[u] = NoValue
                         THEN [store EXCEPT ![u] = InitialRecord]
                         ELSE store
          /\ IF record.status = FINISHED
                THEN /\ resp' = [resp EXCEPT ![h] =
                            StatusResp(record, FinishedLag(StoredQueue, u))]
                     /\ pc' = [pc EXCEPT ![h] = "done"]
                ELSE /\ resp' = resp
                     /\ pc' = [pc EXCEPT ![h] = "gs_getq"]
    /\ UNCHANGED <<pqueue, broker, minted, wpc, trace, returned, queue, idx,
                   pop, members>>

\* record = fetch_redis(uid); if record.status == "finished": lag = 0
GetStatusFetch(h) ==
    /\ Free(h)
    /\ \E u \in UIDS :
          LET record == fetch_redis(store, u) IN
          /\ uid' = [uid EXCEPT ![h] = u]
          /\ rec' = [rec EXCEPT ![h] = record]
          /\ IF record.status = FINISHED
                THEN /\ resp' = [resp EXCEPT ![h] =
                            StatusResp(record, FinishedLag(StoredQueue, u))]
                     /\ pc' = [pc EXCEPT ![h] = "done"]
                ELSE /\ resp' = resp
                     /\ pc' = [pc EXCEPT ![h] = "gs_getq"]
    /\ UNCHANGED <<shared, queue, idx, pop, members>>

\* queue = get_pending_queue(); pop_indices = []
GetStatusGetQueue(h) ==
    /\ At(h, "gs_getq")
    /\ queue' = [queue EXCEPT ![h] = get_pending_queue(pqueue)]
    /\ idx' = [idx EXCEPT ![h] = 0]
    /\ pop' = [pop EXCEPT ![h] = <<>>]
    /\ pc' = [pc EXCEPT ![h] = "gs_scan"]
    /\ UNCHANGED <<shared, uid, rec, members, resp>>

\* one iteration: if fetch_redis(i_uid).status == "finished": append(i)
GetStatusScan(h) ==
    /\ At(h, "gs_scan")
    /\ idx[h] < Len(queue[h])
    /\ pop' = [pop EXCEPT ![h] = ScanStep(store, queue[h], idx[h], pop[h])]
    /\ idx' = [idx EXCEPT ![h] = idx[h] + 1]
    /\ UNCHANGED <<shared, pc, uid, queue, rec, members, resp>>

\* pop, write back if anything was popped, compute lag, return
GetStatusPrune(h) ==
    /\ At(h, "gs_scan")
    /\ idx[h] >= Len(queue[h])
    /\ LET pruned == PopAll(queue[h], pop[h]) IN
          /\ queue' = [queue EXCEPT ![h] = pruned]
          /\ pqueue' = IF pop[h] # <<>> THEN JsonDumpsQueue(pruned) ELSE pqueue
          /\ resp' = [resp EXCEPT ![h] = StatusResp(rec[h], Lag(pruned, uid[h]))]
    /\ pc' = [pc EXCEPT ![h] = "done"]
    /\ UNCHANGED <<store, broker, minted, wpc, uid, rec, idx, pop, members,
                   trace, returned>>

get_status(h) ==
    \/ GetStatusFetch(h)
    \/ GetStatusGetQueue(h)
    \/ GetStatusScan(h)
    \/ GetStatusPrune(h)

\* --------------------------------------------------------- server_status
\* members = kafka_admin.describe_consumer_groups([...])[0].members
ServerStatusDescribe(h) ==
    /\ Free(h)
    /\ \E n \in 0..MaxMembers : members' = [members EXCEPT ![h] = n]
    /\ pc' = [pc EXCEPT ![h] = "ss_getq"]
    /\ UNCHANGED <<shared, uid, queue, rec, idx, pop, resp>>

\* variant: finished entries are left out of the count
ServerStatusReturnPruned(h) ==
    /\ At(h, "ss_getq")
    /\ resp' = [resp EXCEPT ![h] =
                  [kind |-> "server",
                   is_ready |-> IsReady(members[h]),
                   num_pending |->
                       Len(PopAll(get_pending_queue(pqueue),
                                  PopIndices(store, get_pending_queue(pqueue),
                                             0, <<>>)))]]
    /\ pc' = [pc EXCEPT ![h] = "done"]
    /\ UNCHANGED <<shared, uid, queue, rec, idx, pop, members>>

\* ServerStatusModel(is_ready=..., num_pending=len(get_pending_queue()))
ServerStatusReturn(h) ==
    /\ At(h, "ss_getq")
    /\ resp' = [resp EXCEPT ![h] =
                  [kind |-> "server",
                   is_ready |-> IsReady(members[h]),
                   num_pending |-> Len(get_pending_queue(pqueue))]]
    /\ pc' = [pc EXCEPT ![h] = "done"]
    /\ UNCHANGED <<shared, uid, queue, rec, idx, pop, members>>

server_status(h) ==
    \/ ServerStatusDescribe(h)
    \/ ServerStatusReturn(h)

\* the response has been delivered; the invocation's locals are gone
Respond(h) ==
    /\ pc[h] = "done"
    /\ pc' = [pc EXCEPT ![h] = "idle"]
    /\ uid' = [uid EXCEPT ![h] = NoUid]
    /\ queue' = [queue EXCEPT ![h] = <<>>]
    /\ rec' = [rec EXCEPT ![h] = NoRecord]
    /\ idx' = [idx EXCEPT ![h] = 0]
    /\ pop' = [pop EXCEPT ![h] = <<>>]
    /\ members' = [members EXCEPT ![h] = 0]
    /\ resp' = [resp EXCEPT ![h] = NoResp]
    /\ UNCHANGED shared

\* ---------------------------------------------------------------- worker
\* the worker takes a published message and marks the task as working
WorkerStart(u) ==
    /\ Published(u)
    /\ wpc[u] = "none"
    /\ store' = [store EXCEPT ![u] = JsonDumpsRecord(WORKING, Null)]
    /\ wpc' = [wpc EXCEPT ![u] = "working"]
    /\ NoneDone
    /\ UNCHANGED <<pqueue, broker, minted, pc, uid, queue, rec, idx, pop,
                   members, resp, trace, returned>>

\* the worker ends the task: finished with a result, or exception
WorkerEnd(u) ==
    /\ wpc[u] = "working"
    /\ \E outcome \in {JsonDumpsRecord(FINISHED, ResultData),
                       JsonDumpsRecord(EXCEPTION, ErrorData)} :
          store' = [store EXCEPT ![u] = outcome]
    /\ wpc' = [wpc EXCEPT ![u] = "done"]
    /\ NoneDone
    /\ UNCHANGED <<pqueue, broker, minted, pc, uid, queue, rec, idx, pop,
                   members, resp, trace, returned>>

\* a new push is admitted while fewer than MaxPushes have begun
Admitted(h) == pc[h] = "idle" => Cardinality(minted) < MaxPushes

Next ==
    \/ \E h \in Handlers : Admitted(h) /\ push(h)
    \/ \E h \in Handlers : get_status(h)
    \/ \E h \in Handlers : server_status(h)
    \/ \E h \in Handlers : Respond(h)
    \/ \E u \in UIDS : WorkerStart(u)
    \/ \E u \in UIDS : WorkerEnd(u)

Spec == Init /\ [][Next]_vars

\* ------------------------------------------------- one request at a time
\* The same steps with no concurrent operation in flight: a handler runs
\* from its first step to its response while every other invocation is idle
\* and the worker is quiet.
Alone(h) == \A g \in Handlers \ {h} : pc[g] = "idle"

AllIdle == \A g \in Handlers : pc[g] = "idle"

SeqNext ==
    \/ \E h \in Handlers : Alone(h) /\ push(h)
    \/ \E h \in Handlers : Alone(h) /\ get_status(h)
    \/ \E h \in Handlers : Alone(h) /\ server_status(h)
    \/ \E h \in Handlers : Alone(h) /\ Respond(h)
    \/ \E u \in UIDS : AllIdle /\ WorkerStart(u)
    \/ \E u \in UIDS : AllIdle /\ WorkerEnd(u)

SeqSpec == Init /\ [][SeqNext]_vars

\* ================================================================ claims
StatusDone(h) == pc[h] = "done" /\ resp[h].kind = "status"

InGetStatus(h) == pc[h] \in {"gs_getq", "gs_scan"} \/ StatusDone(h)

\* the prune of get_status run in one piece against one store
Prune(st, q) == PopAll(q, PopIndices(st, q, 0, <<>>))

Forward ==
    {<<PENDING, WORKING>>, <<WORKING, FINISHED>>, <<WORKING, EXCEPTION>>}

\* C1: the status stored under a uid only ever moves forward along
\* pending -> working -> finished or pending -> working -> exception, also
\* when a worker writes the record while push for that uid is in progress.
C1_StatusOnlyMovesForward ==
    [][\A u \in UIDS :
          (store[u] # NoValue /\ store'[u] # store[u])
              => <<StatusData(store[u]).status,
                   StatusData(store'[u]).status>> \in Forward]_vars

C3_FinishedQueryRemovesUid ==
    \A h \in Handlers :
        (StatusDone(h) /\ resp[h].status = FINISHED)
            => ~InQueue(StoredQueue, uid[h])

\* C3 amended: with nothing else in flight, after a get_status call that
\* read its own uid's record as not finished, the stored pending queue
\* contains no uid whose record is finished.
C3_UnfinishedQueryPrunesFinished ==
    \A h \in Handlers :
        (StatusDone(h) /\ resp[h].status # FINISHED)
            => \A k \in 1..Len(StoredQueue) :
                   fetch_redis(store, StoredQueue[k]).status # FINISHED

C3_Witness ==
    \E h \in Handlers :
        /\ StatusDone(h)
        /\ resp[h].status # FINISHED
        /\ pop[h] # <<>>
        /\ StoredQueue # <<>>

\* C4: get_status(U) for a uid U that a successful push has returned, and
\* whose record no worker has written, answers status pending, data null.
C4_FreshUidReadsPending ==
    \A h \in Handlers :
        (StatusDone(h) /\ uid[h] \in returned /\ wpc[uid[h]] = "none")
            => (resp[h].status = PENDING /\ resp[h].data = Null)

C4_Witness ==
    \E h \in Handlers :
        /\ StatusDone(h)
        /\ uid[h] \in returned
        /\ wpc[uid[h]] = "none"
        /\ store[uid[h]] = InitialRecord
        /\ resp[h].status = PENDING

\* C5: a get_status that read its uid's record as finished answers lag 0,
\* wherever the uid stands in the pending queue.
C5_FinishedLagIsZero ==
    \A h \in Handlers :
        (StatusDone(h) /\ resp[h].status = FINISHED) => resp[h].pending = 0

C5_Witness ==
    \E h \in Handlers :
        /\ StatusDone(h)
        /\ resp[h].status = FINISHED
        /\ InQueue(StoredQueue, uid[h])
        /\ Lag(StoredQueue, uid[h]) > 0

\* C6: pruning is idempotent: once the prune step of get_status has run,
\* running it again on the unchanged store selects no index to pop (so it
\* writes nothing) and yields the queue the first run produced.
C6_PruneIdempotent ==
    \A h \in Handlers :
        (StatusDone(h) /\ resp[h].status # FINISHED)
            => /\ PopIndices(store, StoredQueue, 0, <<>>) = <<>>
               /\ Prune(store, StoredQueue) = queue[h]
               /\ StoredQueue = queue[h]

C6_Witness ==
    \E h \in Handlers :
        /\ StatusDone(h)
        /\ resp[h].status # FINISHED
        /\ pop[h] # <<>>
        /\ Prune(store, StoredQueue) = queue[h]

\* C7: get_status of a uid that has no record in the store reads it as
\* status pending, data null, and answers with what it read, not an error.
C7_MissingRecordReadsPending ==
    \A h \in Handlers :
        /\ (InGetStatus(h) /\ store[uid[h]] = NoValue)
              => (rec[h].status = PENDING /\ rec[h].data = Null)
        /\ StatusDone(h)
              => (resp[h].status = rec[h].status /\ resp[h].data = rec[h].data)

C7_Witness ==
    \E h \in Handlers :
        /\ StatusDone(h)
        /\ store[uid[h]] = NoValue
        /\ uid[h] \notin minted
        /\ resp[h].status = PENDING
        /\ resp[h].data = Null

\* C8: server_status answers is_ready = false when the broker reported no
\* member of the consumer group and is_ready = true when it reported one
\* or more.
C8_ReadyIffMembers ==
    \A h \in Handlers :
        (pc[h] = "done" /\ resp[h].kind = "server")
            => /\ members[h] = 0 => resp[h].is_ready = FALSE
               /\ members[h] >= 1 => resp[h].is_ready = TRUE

C8_Witness ==
    \E h \in Handlers :
        /\ pc[h] = "done"
        /\ resp[h].kind = "server"
        /\ members[h] = 1
        /\ resp[h].is_ready = TRUE

PushOrder == <<"publish", "append", "record">>

\* C10: within one push the message {uid, task, params} is published
\* first, then the uid is appended to the stored queue, then the initial
\* record is written; before the publish the store holds nothing for it.
C10_PushOrder ==
    /\ \A u \in UIDS :
          /\ trace[u] = SubSeq(PushOrder, 1, Len(trace[u]))
          /\ trace[u] # <<>> =>
                \E m \in broker : m.uid = u /\ m.task \in Tasks
                                            /\ m.params \in Params
          /\ InQueue(StoredQueue, u) => Len(trace[u]) >= 2
          /\ u \in returned <=> trace[u] = PushOrder
    /\ \A h \in Handlers :
          pc[h] = "p_send" =>
              /\ ~Published(uid[h])
              /\ ~InQueue(StoredQueue, uid[h])
              /\ store[uid[h]] = NoValue

C10_Witness ==
    \E h \in Handlers :
        /\ pc[h] = "done"
        /\ resp[h].kind = "push"
        /\ trace[uid[h]] = PushOrder
        /\ Len(StoredQueue) = 2

\* push has appended u to the stored queue
Appended(u) == Len(trace[u]) >= 2

\* handler h writes the pending-queue key in this step
WritesQueue(h) ==
    \/ pc[h] = "p_setq" /\ pc'[h] = "p_rec"
    \/ pc[h] = "gs_scan" /\ pc'[h] = "done" /\ pop[h] # <<>>

\* C11 as stated: under any interleaving of push and get_status, a uid that
\* has been removed from the stored queue never appears in it again.
C11_RemovedNeverReturns ==
    [][\A u \in UIDS :
          (Appended(u) /\ ~InQueue(StoredQueue, u))
              => ~InQueue(get_pending_queue(pqueue'), u)]_vars

\* C11 amended: a uid that has been removed from the stored queue appears
\* in it again only when a push or get_status that still holds a copy of the
\* queue containing it writes that copy back.
C11_ReturnsOnlyByStaleWrite ==
    [][\A u \in UIDS :
          (/\ Appended(u)
           /\ ~InQueue(StoredQueue, u)
           /\ InQueue(get_pending_queue(pqueue'), u))
              => \E h \in Handlers :
                     /\ WritesQueue(h)
                     /\ InQueue(queue[h], u)
                     /\ pqueue' = JsonDumpsQueue(queue'[h])]_vars

C11_Witness ==
    \E u \in UIDS :
        /\ Appended(u)
        /\ fetch_redis(store, u).status = FINISHED
        /\ ~InQueue(StoredQueue, u)
        /\ \E h \in Handlers : pc[h] = "p_setq" /\ InQueue(queue[h], u)

\* handler h ends its prune in this step and pops u from its copy
PrunePops(h, u) ==
    /\ pc[h] = "gs_scan" /\ pc'[h] = "done"
    /\ \E k \in 1..Len(pop[h]) :
          pop[h][k] + 1 <= Len(queue[h]) /\ queue[h][pop[h][k] + 1] = u

\* C12 as stated: under any interleaving of push and get_status, a uid
\* leaves the stored queue only through a get_status prune that read its
\* record as finished.
C12_LeavesOnlyByPrune ==
    [][\A u \in UIDS :
          (InQueue(StoredQueue, u) /\ ~InQueue(get_pending_queue(pqueue'), u))
              => \E h \in Handlers : PrunePops(h, u)]_vars

\* C12 amended: a uid leaves the stored queue only through a write of the
\* pending-queue key: either a get_status prune that read its record as
\* finished (so a worker has ended the task), or a push or prune whose copy
\* of the queue was read before the uid was appended and is written over it.
C12_LeavesByPruneOrStaleWrite ==
    [][\A u \in UIDS :
          (InQueue(StoredQueue, u) /\ ~InQueue(get_pending_queue(pqueue'), u))
              => \E h \in Handlers :
                     /\ WritesQueue(h)
                     /\ pqueue' = JsonDumpsQueue(queue'[h])
                     /\ \/ /\ PrunePops(h, u)
                           /\ wpc[u] = "done"
                           /\ fetch_redis(store, u).status \in {FINISHED, PENDING}
                        \/ ~InQueue(queue[h], u)]_vars

C12_Witness ==
    \E h \in Handlers :
        /\ StatusDone(h)
        /\ pop[h] # <<>>
        /\ pqueue = JsonDumpsQueue(queue[h])
        /\ \E u \in UIDS :
              /\ Appended(u)
              /\ wpc[u] = "done"
              /\ ~InQueue(StoredQueue, u)

\* C13: the queue append of push is a read-modify-write in two steps: the
\* write stores the list push read earlier plus its uid, whatever the key
\* holds by then, so an append made in between is lost.  The witness is the
\* lost update: two pushes have returned and only one uid is stored.
C13_AppendWritesEarlierRead ==
    [][\A h \in Handlers :
          (pc[h] = "p_setq" /\ pc'[h] = "p_rec")
              => /\ get_pending_queue(pqueue') = queue[h]
                 /\ queue[h][Len(queue[h])] = uid[h]
                 /\ \A u \in UIDS :
                       (InQueue(StoredQueue, u) /\ ~InQueue(queue[h], u))
                           => ~InQueue(get_pending_queue(pqueue'), u)]_vars

C13_Witness ==
    \E u, v \in UIDS :
        /\ u # v
        /\ {u, v} \subseteq returned
        /\ \A h \in Handlers : pc[h] = "idle"
        /\ \A w \in UIDS : wpc[w] = "none"
        /\ StoredQueue = <<v>>

\* C19: in every reachable state the stored pending queue holds no uid
\* twice, and every uid in it was minted by a push that has already
\* published its message.
C19_QueueDistinctAndPublished ==
    /\ \A j, k \in 1..Len(StoredQueue) :
          j # k => StoredQueue[j] # StoredQueue[k]
    /\ \A k \in 1..Len(StoredQueue) :
          /\ StoredQueue[k] \in minted
          /\ \E m \in broker : m.uid = StoredQueue[k]

C19_Witness ==
    /\ Len(StoredQueue) = 2
    /\ \E h \in Handlers : pc[h] = "gs_scan" /\ queue[h] # StoredQueue
    /\ \E u \in UIDS : InQueue(StoredQueue, u) /\ wpc[u] = "done"

\* the record stored under u is not finished
NotFinished(u) == fetch_redis(store, u).status # FINISHED

\* handler h ends the prune of get_status in this step
EndsPrune(h) == pc[h] = "gs_scan" /\ pc'[h] = "done"

\* C14: run without interference, the prune step of get_status on a uid
\* that is not finished computes exactly the stored queue without the uids
\* whose record is finished, in the same order, and rewrites the
\* pending-queue key if and only if something was removed.
C14_PruneIsOrderedFilter ==
    [][\A h \in Handlers :
          EndsPrune(h) =>
              LET kept == SelectSeq(StoredQueue, NotFinished) IN
              /\ queue'[h] = kept
              /\ get_pending_queue(pqueue') = kept
              /\ (pqueue' # pqueue) <=> (kept # StoredQueue)
              /\ store' = store]_vars

C14_Witness ==
    \E h \in Handlers :
        /\ StatusDone(h)
        /\ resp[h].status # FINISHED
        /\ Len(pop[h]) = 1
        /\ Len(queue[h]) = 2
        /\ pqueue = JsonDumpsQueue(queue[h])

\* the not-finished uids stored ahead of u
AheadOf(u) ==
    {k \in 1..Len(StoredQueue) :
        /\ NotFinished(StoredQueue[k])
        /\ \E j \in (k + 1)..Len(StoredQueue) : StoredQueue[j] = u}

\* C15: for a uid whose record is not finished, get_status answers with
\* the zero-based index of the uid in the pruned queue, which is the number
\* of not-finished uids stored ahead of it; for a uid that is not in the
\* pruned queue it answers len(pruned queue) - 1 and does not fail.
C15_LagIsPrunedIndex ==
    [][\A h \in Handlers :
          EndsPrune(h) =>
              LET kept == SelectSeq(StoredQueue, NotFinished) IN
              /\ resp'[h].kind = "status"
              /\ resp'[h].status # FINISHED
              /\ IF InQueue(kept, uid[h])
                    THEN /\ resp'[h].pending = Cardinality(AheadOf(uid[h]))
                         /\ kept[resp'[h].pending + 1] = uid[h]
                    ELSE resp'[h].pending = Len(kept) - 1]_vars

C15_Witness ==
    \E h \in Handlers :
        /\ StatusDone(h)
        /\ resp[h].status # FINISHED
        /\ ~InQueue(StoredQueue, uid[h])
        /\ Len(StoredQueue) = 2
        /\ resp[h].pending = 1

\* handler h takes a step of server_status
ServerStatusStep(h) ==
    \/ pc[h] = "idle" /\ pc'[h] = "ss_getq"
    \/ pc[h] = "ss_getq" /\ pc'[h] = "done"

\* C16: server_status reports as num_pending the length of the pending
\* queue exactly as stored, finished entries included, and changes neither
\* the pending queue nor any Task Record.
C16_NumPendingIsRawLength ==
    [][\A h \in Handlers :
          ServerStatusStep(h) =>
              /\ pqueue' = pqueue
              /\ store' = store
              /\ pc'[h] = "done" =>
                    /\ resp'[h].kind = "server"
                    /\ resp'[h].num_pending =
                          (IF pqueue = NoValue THEN 0 ELSE Len(pqueue[1]))]_vars

C16_Witness ==
    \E h \in Handlers :
        /\ pc[h] = "done"
        /\ resp[h].kind = "server"
        /\ resp[h].num_pending = 2
        /\ \E k \in 1..Len(StoredQueue) : ~NotFinished(StoredQueue[k])

\* get_status(u) run in one piece against the store st and the queue key pq
get_status_result(st, pq, u) ==
    LET record == fetch_redis(st, u) IN
    IF record.status = FINISHED
        THEN StatusResp(record, FinishedLag(get_pending_queue(pq), u))
        ELSE StatusResp(record, Lag(Prune(st, get_pending_queue(pq)), u))

\* every pending queue of up to MaxUids entries, repeats included, and the
\* missing key
AnyQueueKey ==
    {NoValue} \cup
    {JsonDumpsQueue(q) : q \in UNION {[1..n -> UIDS] : n \in 0..MaxUids}}

\* C17: the queue is advisory: with the Task Records as they are and any
\* other pending queue in the store, get_status(U) answers the same status
\* and the same data as it did; only the lag may differ.
C17_QueueDoesNotDecideStatus ==
    \A h \in Handlers :
        StatusDone(h) =>
            \A pq \in AnyQueueKey :
                LET other == get_status_result(store, pq, uid[h]) IN
                /\ other.status = resp[h].status
                /\ other.data = resp[h].data

C17_Witness ==
    \E h \in Handlers :
        /\ StatusDone(h)
        /\ resp[h].status = WORKING
        /\ resp[h].pending = 1
        /\ \E pq \in AnyQueueKey :
              get_status_result(store, pq, uid[h]).pending = -1

\* C18: the gateway writes a Task Record only in push, only under the uid
\* that push minted and only with {status: pending, data: null}; get_status
\* and server_status leave every record as it is, and push leaves the
\* records of all other uids as they are.
C18_OnlyPushWritesItsRecord ==
    [][(store' # store /\ wpc' = wpc) =>
          \E h \in Handlers :
              /\ pc[h] = "p_rec" /\ pc'[h] = "done"
              /\ resp'[h] = [kind |-> "push", uid |-> uid[h]]
              /\ uid[h] \in minted \ returned
              /\ store'[uid[h]] = <<"pending", "null">>
              /\ \A u \in UIDS \ {uid[h]} : store'[u] = store[u]]_vars

C18_Witness ==
    \E h \in Handlers :
        /\ pc[h] = "done"
        /\ resp[h].kind = "push"
        /\ store[uid[h]] = <<"pending", "null">>
        /\ \E u \in UIDS \ {uid[h]} : store[u] # NoValue /\ store[u][1] # "pending"

\* C20: for every uid and every reachable store, the empty pending queue
\* and a uid that was never submitted included, the lag get_status answers
\* is a non-negative integer.
C20_LagNonNegative ==
    \A h \in Handlers : StatusDone(h) => resp[h].pending >= 0

====
